---- MODULE Spec2Model ----
(***************************************************************************)
(* Model of pwnlib/elf/corefile.py: the note iterator iter_notes, the note *)
(* pass of Core.__init__, Core._parse_nt_file, Core._parse_auxv and the    *)
(* backward stack scan Core._parse_stack.                                  *)
(*                                                                         *)
(* Four specifications share the variables:                                *)
(*   NotesSpec  iter_notes over one note segment of a file                 *)
(*   MapSpec    _parse_nt_file on one mapped-file note and a segment list  *)
(*   Spec       the note pass of Core.__init__ (lines 108-129)             *)
(*   StackSpec  the tail of Core.__init__ (lines 131-137) and _parse_stack *)
(***************************************************************************)
EXTENDS Integers, Sequences, FiniteSets, TLC

VARIABLES
    \* ---- iter_notes ----
    stream_len,     \* number of bytes in the file behind self.stream
    p_offset,       \* self['p_offset']
    p_filesz,       \* self['p_filesz']
    offset,         \* the local `offset`
    yielded,        \* the notes yielded so far, in order
    it_pc,          \* "loop" | "done" | "raised"
    \* ---- Core.__init__ note pass and _parse_nt_file ----
    segments,       \* self.segments restricted to program headers (p_type, p_vaddr, p_memsz, p_flags)
    notes,          \* the notes the note segments deliver, in iteration order
    note_idx,       \* number of notes already processed
    prstatus,       \* self.prstatus
    mappings,       \* self.mappings
    addresses,      \* self.addresses: start -> the Mapping registered for it
    stack,          \* self.stack (0 models None / falsy)
    at_execfn,      \* self.at_execfn
    core_pc,        \* "notes" | "stack" | "done" | "raised"
    \* ---- _parse_stack ----
    mem,            \* the bytes of the dumped process image, address -> 0..255
    address,        \* the local `address`
    last_env_addr,  \* the local `last_env_addr`
    end_of_envp,    \* the local `end_of_envp`
    env_slot,       \* the loop variable `env` of the final for loop
    env,            \* self.env: set of <<name, address>> pairs (a function name -> address)
    pc,             \* position inside _parse_stack
    layout          \* description of how the memory image was built (input bookkeeping)

vars == <<stream_len, p_offset, p_filesz, offset, yielded, it_pc,
          segments, notes, note_idx, prstatus, mappings, addresses, stack,
          at_execfn, core_pc,
          mem, address, last_env_addr, end_of_envp, env_slot, env, pc, layout>>

notesVars == <<stream_len, p_offset, p_filesz, offset, yielded, it_pc>>
coreVars  == <<segments, notes, note_idx, prstatus, mappings, addresses, stack,
               at_execfn, core_pc>>
stackVars == <<mem, address, last_env_addr, end_of_envp, env_slot, env, pc, layout>>

Min(a, b) == IF a < b THEN a ELSE b

\* least and greatest element of a non-empty set of integers
FirstOf(S) == CHOOSE k \in S : \A j \in S : k <= j
LastOf(S)  == CHOOSE k \in S : \A j \in S : j <= k

RECURSIVE Pow2(_)
Pow2(n) == IF n = 0 THEN 1 ELSE 2 * Pow2(n - 1)

(***************************************************************************)
(* iter_notes                                                              *)
(***************************************************************************)

\* ---- bounds ----
MaxFilesz  == 34     \* largest p_filesz tried
MaxNamesz  == 5      \* largest n_namesz a header declares
MaxDescsz  == 5      \* largest n_descsz a header declares
MaxSlack   == 20     \* largest number of file bytes after the note segment

\* Elf_Nhdr.sizeof(): three 4-byte words (n_namesz, n_descsz, n_type)
NhdrSize == 12

\* elftools.common.utils.roundup(num, bits): round up to a multiple of 2^bits
roundup(num, bits) == ((num - 1 + Pow2(bits)) \div Pow2(bits)) * Pow2(bits)

\* states of the other specifications' variables while iter_notes runs
CoreIdle ==
    /\ segments = <<>> /\ notes = <<>> /\ note_idx = 0 /\ prstatus = <<>>
    /\ mappings = <<>> /\ addresses = <<>> /\ stack = 0 /\ at_execfn = 0
    /\ core_pc = "idle"

StackIdle ==
    /\ mem = <<>> /\ address = 0 /\ last_env_addr = 0 /\ end_of_envp = 0
    /\ env_slot = 0 /\ env = {} /\ pc = "idle" /\ layout = <<>>

NotesIdle ==
    /\ stream_len = 0 /\ p_offset = 0 /\ p_filesz = 0 /\ offset = 0
    /\ yielded = <<>> /\ it_pc = "idle"

NotesInit ==
    /\ p_offset \in {0, 4}
    /\ p_filesz \in 0..MaxFilesz
    /\ \E slack \in {0, 8, MaxSlack} : stream_len = p_offset + p_filesz + slack
    /\ offset = p_offset                       \* line 28
    /\ yielded = <<>>
    /\ it_pc = "loop"
    /\ CoreIdle /\ StackIdle

end == p_offset + p_filesz                     \* line 29

\* One iteration of the while loop (lines 30-48) that reaches the yield.
\* The header at `offset` declares n_namesz and n_descsz; they are whatever
\* the file holds there.  struct_parse needs the NhdrSize header bytes to be
\* in the file; stream.read returns what is left of the file when fewer
\* bytes remain than asked for.  Names hold at least their NUL (n_namesz >= 1),
\* as the names of core notes do.
IterNotesYield ==
    /\ it_pc = "loop"
    /\ offset < end                            \* line 30
    /\ offset + NhdrSize <= stream_len         \* lines 31-34 parse a whole header
    /\ \E n_namesz \in 1..MaxNamesz, n_descsz \in 0..MaxDescsz :
         LET disk_namesz == roundup(n_namesz, 2)                 \* line 39
             after_name  == offset + NhdrSize + disk_namesz     \* lines 36, 42
             desc_pos    == Min(after_name, stream_len)
             desc_len    == Min(n_descsz, stream_len - desc_pos) \* line 44
             new_offset  == after_name + roundup(n_descsz, 2)   \* line 46
             note == [n_offset |-> offset,                       \* line 35
                      n_namesz |-> n_namesz,
                      n_descsz |-> n_descsz,
                      desc_len |-> desc_len,                     \* len(note['n_desc'])
                      n_size   |-> new_offset - offset]          \* line 47
         IN /\ offset + NhdrSize + 1 <= stream_len   \* CString finds the name's first byte
            /\ yielded' = Append(yielded, note)      \* line 48
            /\ offset' = new_offset
    /\ UNCHANGED <<stream_len, p_offset, p_filesz, it_pc>>
    /\ UNCHANGED coreVars /\ UNCHANGED stackVars

\* struct_parse (lines 31-34) or the CString parse (lines 40-41) runs out of
\* file: the parse error leaves the generator.
IterNotesRaise ==
    /\ it_pc = "loop"
    /\ offset < end
    /\ offset + NhdrSize + 1 > stream_len
    /\ it_pc' = "raised"
    /\ UNCHANGED <<stream_len, p_offset, p_filesz, offset, yielded>>
    /\ UNCHANGED coreVars /\ UNCHANGED stackVars

\* The while condition of line 30 fails: the generator is exhausted.
IterNotesEnd ==
    /\ it_pc = "loop"
    /\ ~(offset < end)
    /\ it_pc' = "done"
    /\ UNCHANGED <<stream_len, p_offset, p_filesz, offset, yielded>>
    /\ UNCHANGED coreVars /\ UNCHANGED stackVars

NotesNext == IterNotesYield \/ IterNotesRaise \/ IterNotesEnd

NotesSpec == NotesInit /\ [][NotesNext]_vars

(***************************************************************************)
(* Mapping, _parse_nt_file, _parse_auxv and the note pass of Core.__init__ *)
(***************************************************************************)

\* ---- bounds ----
MaxEntries == 2      \* largest number of triples in a mapped-file note
MaxSegs    == 2      \* largest number of program headers
MaxNotes   == 3      \* largest number of notes in the note pass

PageSize     == 4096   \* 0x1000 (and the mask 0xfff) of _parse_auxv
bytes        == 4      \* context.bytes for arch i386
PrstatusSize == 144    \* ctypes.sizeof(elf_prstatus_i386)
AT_EXECFN    == 31     \* constants.AT_EXECFN

None == "None"

\* class Mapping, lines 50-56
Mapping(name, start, stop, flags) ==
    [name |-> name, start |-> start, stop |-> stop,
     size |-> stop - start, flags |-> flags]

\* lines 149-159: the `count` triples and names of the descriptor become
\* Mappings with flags 0, in note order.
NoteMappings(desc) ==
    [i \in 1..desc.count |->
        Mapping(desc.names[i], desc.triples[i].start, desc.triples[i].stop, 0)]

\* line 155: addresses[start] = mapping, a later triple replacing an earlier
\* one with the same start.  The value is the index in the mappings list.
NoteAddresses(ms) ==
    [a \in {ms[i].start : i \in DOMAIN ms} |->
        CHOOSE i \in DOMAIN ms :
            /\ ms[i].start = a
            /\ \A j \in DOMAIN ms : ms[j].start = a => j <= i]

\* lines 161-173: one program header s applied to (ms, addr)
MergeOneNoDedup(ms, addr, s) ==
    IF s.p_type # "PT_LOAD" THEN [ms |-> ms, addr |-> addr]
    ELSE [ms |-> Append(ms, Mapping(None, s.p_vaddr, s.p_vaddr + s.p_memsz, s.p_flags)),
          addr |-> [a \in DOMAIN addr \cup {s.p_vaddr} |->
                       IF a = s.p_vaddr THEN Len(ms) + 1 ELSE addr[a]]]

MergeOne(ms, addr, s) ==
    IF s.p_type # "PT_LOAD" THEN [ms |-> ms, addr |-> addr]        \* lines 162-163
    ELSE IF s.p_vaddr \in DOMAIN addr                              \* line 165
    THEN [ms |-> [ms EXCEPT ![addr[s.p_vaddr]].flags = s.p_flags], \* line 166
          addr |-> addr]
    ELSE [ms |-> Append(ms, Mapping(None, s.p_vaddr,               \* lines 168-172
                                    s.p_vaddr + s.p_memsz, s.p_flags)),
          addr |-> [a \in DOMAIN addr \cup {s.p_vaddr} |->         \* line 173
                       IF a = s.p_vaddr THEN Len(ms) + 1 ELSE addr[a]]]

RECURSIVE MergeSegments(_, _, _)
MergeSegments(ms, addr, segs) ==
    IF segs = <<>> THEN [ms |-> ms, addr |-> addr]
    ELSE LET r == MergeOne(ms, addr, Head(segs))
         IN  MergeSegments(r.ms, r.addr, Tail(segs))

\* sorted(mappings, key=lambda m: m.start): a stable sort by start
RECURSIVE InsertByStart(_, _)
InsertByStart(sorted, m) ==
    IF sorted = <<>> THEN <<m>>
    ELSE IF sorted[Len(sorted)].start <= m.start THEN Append(sorted, m)
    ELSE Append(InsertByStart(SubSeq(sorted, 1, Len(sorted) - 1), m),
                sorted[Len(sorted)])

RECURSIVE StableSort(_)
StableSort(ms) ==
    IF ms = <<>> THEN <<>>
    ELSE InsertByStart(StableSort(SubSeq(ms, 1, Len(ms) - 1)), ms[Len(ms)])

SortByStartUnsorted(ms) == ms
SortByStart(ms) == StableSort(ms)                                     \* line 175

\* tube.unpack / tube.recvuntil run out of descriptor bytes when the note
\* declares more triples or names than the descriptor holds.
NtFileTruncated(desc) ==
    \/ desc.count > Len(desc.triples)
    \/ desc.count > Len(desc.names)

\* _parse_nt_file (lines 139-176) on a descriptor that decodes: the values
\* assigned to self.mappings and self.addresses
ParseNtFile(desc, segs) ==
    LET ms0 == NoteMappings(desc)
        r   == MergeSegments(ms0, NoteAddresses(ms0), segs)
    IN  [mappings  |-> SortByStart(r.ms),
         addresses |-> [a \in DOMAIN r.addr |-> r.ms[r.addr[a]]]]

\* lines 195-197: value & ~0xfff, then + 0x1000
StackAnchor(value) == (value - (value % PageSize)) + PageSize

\* _parse_auxv (lines 178-197) over the words of the descriptor: the pair
\* <<at_execfn, stack>> after the loop, starting from the pair `cur`.
RECURSIVE AuxvScan(_, _)
AuxvScan(words, cur) ==
    IF Len(words) < 2 THEN cur
    ELSE LET key   == words[1]
             value == words[2]
         IN  AuxvScan(SubSeq(words, 3, Len(words)),
                      IF key = AT_EXECFN                           \* line 193
                      THEN <<value, StackAnchor(value)>>
                      ELSE cur)

\* range(0, n_descsz, context.bytes * 2) makes one more iteration than there
\* are whole pairs when a key word has no value word after it.
AuxvTruncated(note) == (note.n_descsz \div bytes) % 2 = 1

\* prstatus_type.from_buffer_copy(note.n_desc): a copy of the register words
DecodePrstatus(n_desc) == [pr_reg |-> n_desc]

\* lines 115-116
Qualifies(n) ==
    /\ n.n_descsz = PrstatusSize
    /\ n.n_type = "NT_GNU_ABI_TAG"

\* ---- inputs ----
Starts == {PageSize, 2 * PageSize, 3 * PageSize}
Names  == <<"a", "b", "c", "d">>

Triples == {[start |-> a, stop |-> a + k * PageSize] : a \in Starts, k \in 1..2}

SeqsUpTo(S, n) == UNION {[1..k -> S] : k \in 0..n}

\* descriptors holding all their names, and descriptors cut before the last name
NtFileDescs(n) ==
    {[count |-> Len(t), triples |-> t, names |-> SubSeq(Names, 1, Len(t))] :
        t \in SeqsUpTo(Triples, n)}
    \cup {[count |-> Len(t), triples |-> t, names |-> SubSeq(Names, 1, Len(t) - 1)] :
        t \in SeqsUpTo(Triples, n) \ {<<>>}}

NtFileNote(desc) ==
    [n_type |-> "NT_FILE",
     n_descsz |-> bytes * (2 + 3 * Len(desc.triples)) + 2 * Len(desc.names),
     n_desc |-> desc]

ProgramHeaders ==
    {[p_type |-> "PT_LOAD", p_vaddr |-> a, p_memsz |-> k * PageSize, p_flags |-> f] :
        a \in Starts, k \in 1..2, f \in {5, 6}}
    \cup {[p_type |-> "PT_NOTE", p_vaddr |-> 0, p_memsz |-> 0, p_flags |-> 4]}

AuxvNote(words) ==
    [n_type |-> "NT_AUXV", n_descsz |-> bytes * Len(words), n_desc |-> words]

PassNotes ==
    {[n_type |-> "NT_GNU_ABI_TAG", n_descsz |-> PrstatusSize, n_desc |-> <<r>>] : r \in 1..2}
    \cup {[n_type |-> "NT_GNU_ABI_TAG", n_descsz |-> PrstatusSize + 4, n_desc |-> <<3>>]}
    \cup {NtFileNote(d) : d \in
            {[count |-> 1, triples |-> <<[start |-> PageSize, stop |-> 2 * PageSize]>>,
              names |-> <<"a">>],
             [count |-> 2, triples |-> <<[start |-> PageSize, stop |-> 2 * PageSize],
                                         [start |-> 2 * PageSize, stop |-> 3 * PageSize]>>,
              names |-> <<"a">>]}}
    \cup {AuxvNote(w) : w \in {<<AT_EXECFN, 2 * PageSize + 4000>>,
                               <<6, PageSize, AT_EXECFN, PageSize + 100>>,
                               <<AT_EXECFN, PageSize + 8, 6>>}}
    \cup {[n_type |-> "NT_SIGINFO", n_descsz |-> 8, n_desc |-> <<0, 0>>]}

CoreStart ==
    /\ note_idx = 0
    /\ prstatus = <<>>                    \* line 90
    /\ mappings = <<>>                    \* line 92
    /\ addresses = <<>>
    /\ stack = 0                          \* line 93
    /\ at_execfn = 0
    /\ core_pc = "notes"
    /\ NotesIdle /\ StackIdle

Init ==
    /\ notes \in SeqsUpTo(PassNotes, MaxNotes)
    /\ segments \in SeqsUpTo({[p_type |-> "PT_LOAD", p_vaddr |-> a,
                               p_memsz |-> PageSize, p_flags |-> 5] :
                                 a \in {PageSize, 3 * PageSize}}, 1)
    /\ CoreStart

MapInit ==
    /\ \E d \in NtFileDescs(MaxEntries) : notes = <<NtFileNote(d)>>
    /\ segments \in SeqsUpTo(ProgramHeaders, MaxSegs)
    /\ CoreStart

note == notes[note_idx + 1]

InPass == core_pc = "notes" /\ note_idx < Len(notes)

\* lines 115-118: a note that passes the NT_PRSTATUS test
NotePrstatus ==
    /\ InPass
    /\ Qualifies(note)
    /\ prstatus' = DecodePrstatus(note.n_desc)
    /\ note_idx' = note_idx + 1
    /\ UNCHANGED <<segments, notes, mappings, addresses, stack, at_execfn, core_pc>>
    /\ UNCHANGED notesVars /\ UNCHANGED stackVars

\* lines 121-123: a mapped-file note that decodes
NoteNtFile ==
    /\ InPass
    /\ note.n_type = "NT_FILE"
    /\ ~NtFileTruncated(note.n_desc)
    /\ LET r == ParseNtFile(note.n_desc, segments)
       IN  /\ mappings' = r.mappings
           /\ addresses' = r.addresses
    /\ note_idx' = note_idx + 1
    /\ UNCHANGED <<segments, notes, prstatus, stack, at_execfn, core_pc>>
    /\ UNCHANGED notesVars /\ UNCHANGED stackVars

\* lines 121-123: the descriptor runs out inside _parse_nt_file; nothing
\* between the tube and the caller of Core() handles the exception.
NoteNtFileRaise ==
    /\ InPass
    /\ note.n_type = "NT_FILE"
    /\ NtFileTruncated(note.n_desc)
    /\ core_pc' = "raised"
    /\ UNCHANGED <<segments, notes, note_idx, prstatus, mappings, addresses, stack, at_execfn>>
    /\ UNCHANGED notesVars /\ UNCHANGED stackVars

\* lines 127-129: an auxiliary-vector note made of whole pairs
NoteAuxv ==
    /\ InPass
    /\ note.n_type = "NT_AUXV"
    /\ ~AuxvTruncated(note)
    /\ LET r == AuxvScan(note.n_desc, <<at_execfn, stack>>)
       IN  /\ at_execfn' = r[1]
           /\ stack' = r[2]
    /\ note_idx' = note_idx + 1
    /\ UNCHANGED <<segments, notes, prstatus, mappings, addresses, core_pc>>
    /\ UNCHANGED notesVars /\ UNCHANGED stackVars

\* lines 127-129: the last key has no value; the pairs before it have been
\* applied when the unpack of the value raises.
NoteAuxvRaise ==
    /\ InPass
    /\ note.n_type = "NT_AUXV"
    /\ AuxvTruncated(note)
    /\ LET r == AuxvScan(note.n_desc, <<at_execfn, stack>>)
       IN  /\ at_execfn' = r[1]
           /\ stack' = r[2]
    /\ core_pc' = "raised"
    /\ UNCHANGED <<segments, notes, note_idx, prstatus, mappings, addresses>>
    /\ UNCHANGED notesVars /\ UNCHANGED stackVars

\* a note none of the three tests of lines 115-129 selects
NoteOther ==
    /\ InPass
    /\ ~Qualifies(note)
    /\ note.n_type \notin {"NT_FILE", "NT_AUXV"}
    /\ note_idx' = note_idx + 1
    /\ UNCHANGED <<segments, notes, prstatus, mappings, addresses, stack, at_execfn, core_pc>>
    /\ UNCHANGED notesVars /\ UNCHANGED stackVars

\* the loops of lines 109-112 are exhausted; line 131 decides whether the
\* stack is looked at
PassEnd ==
    /\ core_pc = "notes"
    /\ note_idx = Len(notes)
    /\ core_pc' = IF stack # 0 /\ mappings # <<>> THEN "tail" ELSE "done"
    /\ UNCHANGED <<segments, notes, note_idx, prstatus, mappings, addresses, stack, at_execfn>>
    /\ UNCHANGED notesVars /\ UNCHANGED stackVars

Next ==
    \/ NotePrstatus \/ NoteNtFile \/ NoteNtFileRaise
    \/ NoteAuxv \/ NoteAuxvRaise \/ NoteOther \/ PassEnd

Spec == Init /\ [][Next]_vars

MapNext == NoteNtFile \/ NoteNtFileRaise \/ PassEnd

MapSpec == MapInit /\ [][MapNext]_vars

(***************************************************************************)
(* The tail of Core.__init__ (lines 131-137) and _parse_stack              *)
(***************************************************************************)

\* ---- bounds ----
MaxArgc == 2         \* largest number of argv entries on the modelled stack
MaxEnv  == 2         \* largest number of envp entries on the modelled stack

\* The dumped stack ends at the end of the page that holds the executable's
\* file name.
Top == 2 * PageSize

RECURSIVE Concat(_)
Concat(ss) == IF ss = <<>> THEN <<>> ELSE Head(ss) \o Concat(Tail(ss))

\* ---- the input: an initial process stack, as the kernel lays it out ----
\* (low to high) argc, argv[], NULL, envp[], NULL, one auxv word, padding,
\* the argv strings, the envp strings, the executable's file name, a NULL word
ArgStr     == <<97, 0>>                                     \* "a\0"
ExecStr    == <<120, 0>>                                    \* "x\0"
EnvStr(s)  == <<s.name, 61>> \o (IF s.vlen = 1 THEN <<118>> ELSE <<>>) \o <<0>>
EnvChoices == {[name |-> 65, vlen |-> 0], [name |-> 66, vlen |-> 0], [name |-> 65, vlen |-> 1]}

StrBytes(l) ==
    Concat([i \in 1..l.argc |-> ArgStr]) \o Concat([i \in 1..Len(l.envs) |-> EnvStr(l.envs[i])])
        \o ExecStr \o [k \in 1..bytes |-> 0]
StrLo(l)  == Top - Len(StrBytes(l))
ExecFn(l) == Top - bytes - Len(ExecStr)
EnvAddr(l, i) ==
    ExecFn(l) - Len(Concat([j \in 1..(Len(l.envs) - i + 1) |-> EnvStr(l.envs[i + j - 1])]))
ArgAddr(l, i) == StrLo(l) + (i - 1) * Len(ArgStr)
\* the string that ends right before the executable's file name
LastStr(l) == IF Len(l.envs) > 0 THEN EnvAddr(l, Len(l.envs)) ELSE ArgAddr(l, l.argc)
PadLo(l)  == StrLo(l) - (StrLo(l) % bytes)
Words(l)  ==
    <<l.argc>> \o [i \in 1..l.argc |-> ArgAddr(l, i)] \o <<0>>
        \o [i \in 1..Len(l.envs) |-> EnvAddr(l, i)] \o <<0>> \o <<0>>
Bottom(l) == PadLo(l) - bytes * Len(Words(l))
\* addresses of envp[1] and of the NULL that ends envp[]
EnvpLo(l) == Bottom(l) + bytes * (l.argc + 2)
EnvpHi(l) == EnvpLo(l) + bytes * Len(l.envs)

RECURSIVE Pow256(_)
Pow256(k) == IF k = 0 THEN 1 ELSE 256 * Pow256(k - 1)

\* byte k (little-endian) of the word w
WordByte(w, k) == (w \div Pow256(k)) % 256

\* The bytes of the dump from l.cut up to Top: the laid out stack, with the
\* one word or byte that l.change overwrites.
Image(l) ==
    LET sb  == StrBytes(l)
        slo == Top - Len(sb)
        plo == slo - (slo % bytes)
        ws  == Words(l)
        bot == plo - bytes * Len(ws)
        ch  == l.change
    IN  [a \in l.cut..(Top - 1) |->
            IF ch[1] = "word" /\ a >= ch[2] /\ a < ch[2] + bytes
            THEN WordByte(ch[3], a - ch[2])
            ELSE IF ch[1] = "byte" /\ a = ch[2] THEN ch[3]
            ELSE IF a >= slo THEN sb[a - slo + 1]
            ELSE IF a >= plo THEN 0
            ELSE WordByte(ws[((a - bot) \div bytes) + 1], (a - bot) % bytes)]

Aligned(l) == {a \in Bottom(l)..(Top - 1) : a % bytes = 0}

Changes(l) ==
    {<<"none", 0, 0>>, <<"byte", ExecFn(l) - 1, 1>>}
    \cup {<<"word", a, v>> : a \in {x \in Aligned(l) : x <= LastStr(l)},
                             v \in {0, 1, LastStr(l)}}

\* lowest address the dump backs with bytes
Cuts(l) == Aligned(l) \cup {Top, ExecFn(l), ExecFn(l) - 1}

Layouts ==
    {[argc |-> c, envs |-> es, cut |-> 0, change |-> <<"none", 0, 0>>] :
        c \in 1..MaxArgc, es \in SeqsUpTo(EnvChoices, MaxEnv)}

Images ==
    UNION {{[l EXCEPT !.cut = Bottom(l), !.change = ch] : ch \in Changes(l)}
           \cup {[l EXCEPT !.cut = c] : c \in Cuts(l)} : l \in Layouts}

\* ---- the memory reader of the image (ELF.u8, ELF.unpack, ELF.string) ----
Mapped(a) == a \in DOMAIN mem
u8(a) == mem[a]
WordMapped(a) == \A k \in 0..(bytes - 1) : Mapped(a + k)
RECURSIVE SumBytes(_, _)
SumBytes(a, k) == IF k = 0 THEN 0 ELSE mem[a] + 256 * SumBytes(a + 1, k - 1)
unpack(a) == SumBytes(a, bytes)
\* the NUL that ends the string at a, when the image holds one
StringMapped(a) ==
    IF ~Mapped(a) THEN FALSE
    ELSE \E z \in a..(Top - 1) : (\A x \in a..z : Mapped(x)) /\ mem[z] = 0
StringEnd(a) == CHOOSE z \in a..(Top - 1) :
                    /\ \A x \in a..z : Mapped(x)
                    /\ mem[z] = 0
                    /\ \A x \in a..(z - 1) : mem[x] # 0
string(a) == [k \in 1..(StringEnd(a) - a) |-> mem[a + k - 1]]

\* value.split('=', 1)[0]
NameOfWhole(value) == value
NameOf(value) ==
    IF \E k \in DOMAIN value : value[k] = 61
    THEN SubSeq(value, 1, (CHOOSE k \in DOMAIN value :
                              value[k] = 61 /\ \A j \in 1..(k - 1) : value[j] # 61) - 1)
    ELSE value

\* line 203
SanityAddressAnchor(execfn) == StackAnchor(execfn) - 1
SanityAddress(execfn) == execfn - 1

\* lines 219, 228, 238: one step of a backward scan
StepBackForward(a, n) == a + n
StepBack(a, n) == a - n

\* line 225: address &= ~(context.bytes - 1)
AlignDown(a) == a - (a % bytes)

StackMappings ==
    {<<Mapping("a", Top - PageSize, Top - 16, 5), Mapping(None, Top - 16, Top, 6),
       Mapping(None, Top, Top, 6)>>,
     <<Mapping("a", Top - PageSize, Top + PageSize, 6)>>}

\* the state the note pass leaves behind when an auxiliary vector and a
\* mapped-file note were found
StackInit ==
    /\ layout \in Images
    /\ mem = Image(layout)
    /\ at_execfn = ExecFn(layout)                      \* line 194
    /\ stack = [anchor |-> StackAnchor(at_execfn)]     \* lines 195-197
    /\ mappings \in StackMappings
    /\ core_pc = "tail"
    /\ segments = <<>> /\ notes = <<>> /\ note_idx = 0 /\ prstatus = <<>>
    /\ addresses = <<>>
    /\ address = 0 /\ last_env_addr = 0 /\ end_of_envp = 0 /\ env_slot = 0
    /\ env = {}                                        \* line 94
    /\ pc = "idle"
    /\ NotesIdle

StackMatches == {i \in DOMAIN mappings : mappings[i].stop = stack.anchor}

\* lines 132-133 find no mapping that stops at the anchor
TailNoStack ==
    /\ core_pc = "tail"
    /\ StackMatches = {}
    /\ core_pc' = "done"
    /\ UNCHANGED <<segments, notes, note_idx, prstatus, mappings, addresses, stack, at_execfn>>
    /\ UNCHANGED notesVars /\ UNCHANGED stackVars

\* lines 132-137 and 203: the first mapping that stops at the anchor becomes
\* self.stack and _parse_stack is entered.  self.stack is a Mapping from
\* here on, so no later mapping compares equal to it.
TailFindStack ==
    /\ core_pc = "tail"
    /\ StackMatches # {}
    /\ LET i == FirstOf(StackMatches)
       IN  /\ mappings' = [mappings EXCEPT ![i].name = "[stack]"]
           /\ stack' = [anchor |-> stack.anchor,
                        mapping |-> [mappings[i] EXCEPT !.name = "[stack]"]]
    /\ address' = SanityAddress(at_execfn)
    /\ pc' = "sanity"
    /\ core_pc' = "parse_stack"
    /\ UNCHANGED <<segments, notes, note_idx, prstatus, addresses, at_execfn>>
    /\ UNCHANGED <<mem, last_env_addr, end_of_envp, env_slot, env, layout>>
    /\ UNCHANGED notesVars

stackFrame == <<segments, notes, note_idx, prstatus, mappings, addresses, stack, at_execfn>>

\* lines 206-215: the byte is not there (ValueError) or is not zero
\* (AssertionError); both are caught and _parse_stack returns
SanityAbort ==
    /\ pc = "sanity"
    /\ ~(Mapped(address) /\ u8(address) = 0)
    /\ pc' = IF Mapped(address) THEN "weird" ELSE "nostack"
    /\ core_pc' = "done"
    /\ UNCHANGED stackFrame /\ UNCHANGED notesVars
    /\ UNCHANGED <<mem, address, last_env_addr, end_of_envp, env_slot, env, layout>>

SanityOk ==
    /\ pc = "sanity"
    /\ Mapped(address) /\ u8(address) = 0
    /\ pc' = "scan_byte"
    /\ UNCHANGED core_pc
    /\ UNCHANGED stackFrame /\ UNCHANGED notesVars
    /\ UNCHANGED <<mem, address, last_env_addr, end_of_envp, env_slot, env, layout>>

\* lines 218-219: one iteration of the byte scan
ScanByteStep ==
    /\ pc = "scan_byte"
    /\ Mapped(address - 1) /\ u8(address - 1) # 0
    /\ address' = StepBack(address, 1)
    /\ UNCHANGED <<core_pc, pc>>
    /\ UNCHANGED stackFrame /\ UNCHANGED notesVars
    /\ UNCHANGED <<mem, last_env_addr, end_of_envp, env_slot, env, layout>>

\* lines 218, 224-225: the byte scan ends
ScanByteFound ==
    /\ pc = "scan_byte"
    /\ Mapped(address - 1) /\ u8(address - 1) = 0
    /\ last_env_addr' = address
    /\ address' = AlignDown(address)
    /\ pc' = "scan_word"
    /\ UNCHANGED core_pc
    /\ UNCHANGED stackFrame /\ UNCHANGED notesVars
    /\ UNCHANGED <<mem, end_of_envp, env_slot, env, layout>>

\* lines 227-228: one iteration of the scan for the end of envp[]
ScanWordStep ==
    /\ pc = "scan_word"
    /\ WordMapped(address) /\ unpack(address) # last_env_addr
    /\ address' = StepBack(address, bytes)
    /\ UNCHANGED <<core_pc, pc>>
    /\ UNCHANGED stackFrame /\ UNCHANGED notesVars
    /\ UNCHANGED <<mem, last_env_addr, end_of_envp, env_slot, env, layout>>

ScanWordFound ==
    /\ pc = "scan_word"
    /\ WordMapped(address) /\ unpack(address) = last_env_addr
    /\ pc' = "check_null"
    /\ UNCHANGED core_pc
    /\ UNCHANGED stackFrame /\ UNCHANGED notesVars
    /\ UNCHANGED <<mem, address, last_env_addr, end_of_envp, env_slot, env, layout>>

\* lines 230, 235: the word after the match is NULL
CheckNullOk ==
    /\ pc = "check_null"
    /\ WordMapped(address + bytes) /\ unpack(address + bytes) = 0
    /\ end_of_envp' = address + bytes
    /\ pc' = "scan_start"
    /\ UNCHANGED core_pc
    /\ UNCHANGED stackFrame /\ UNCHANGED notesVars
    /\ UNCHANGED <<mem, address, last_env_addr, env_slot, env, layout>>

\* line 230: the assert fails; no handler encloses it, in _parse_stack or in
\* Core.__init__
CheckNullFail ==
    /\ pc = "check_null"
    /\ WordMapped(address + bytes) /\ unpack(address + bytes) # 0
    /\ pc' = "mismatch"
    /\ core_pc' = "raised"
    /\ UNCHANGED stackFrame /\ UNCHANGED notesVars
    /\ UNCHANGED <<mem, address, last_env_addr, end_of_envp, env_slot, env, layout>>

\* lines 237-238: one iteration of the scan for the start of envp[]
ScanStartStep ==
    /\ pc = "scan_start"
    /\ WordMapped(address - bytes) /\ unpack(address - bytes) # 0
    /\ address' = StepBack(address, bytes)
    /\ UNCHANGED <<core_pc, pc>>
    /\ UNCHANGED stackFrame /\ UNCHANGED notesVars
    /\ UNCHANGED <<mem, last_env_addr, end_of_envp, env_slot, env, layout>>

\* lines 237, 240, 243: start_of_envp = address is where the for loop starts
ScanStartFound ==
    /\ pc = "scan_start"
    /\ WordMapped(address - bytes) /\ unpack(address - bytes) = 0
    /\ env_slot' = address
    /\ pc' = "fill"
    /\ UNCHANGED core_pc
    /\ UNCHANGED stackFrame /\ UNCHANGED notesVars
    /\ UNCHANGED <<mem, address, last_env_addr, end_of_envp, env, layout>>

\* lines 243-247: one iteration of the for loop
FillStep ==
    /\ pc = "fill"
    /\ env_slot < end_of_envp
    /\ WordMapped(env_slot) /\ StringMapped(unpack(env_slot))
    /\ LET envaddr == unpack(env_slot)
           name    == NameOf(string(envaddr))
       IN  env' = {e \in env : e[1] # name} \cup {<<name, envaddr>>}
    /\ env_slot' = env_slot + bytes
    /\ UNCHANGED <<core_pc, pc>>
    /\ UNCHANGED stackFrame /\ UNCHANGED notesVars
    /\ UNCHANGED <<mem, address, last_env_addr, end_of_envp, layout>>

\* line 243: the range is exhausted, _parse_stack and Core.__init__ return
FillDone ==
    /\ pc = "fill"
    /\ ~(env_slot < end_of_envp)
    /\ pc' = "returned"
    /\ core_pc' = "done"
    /\ UNCHANGED stackFrame /\ UNCHANGED notesVars
    /\ UNCHANGED <<mem, address, last_env_addr, end_of_envp, env_slot, env, layout>>

\* a read after the sanity check (lines 218, 227, 230, 237, 244, 245) asks
\* for bytes the dump does not hold
ReadFaults ==
    \/ pc = "scan_byte"  /\ ~Mapped(address - 1)
    \/ pc = "scan_word"  /\ ~WordMapped(address)
    \/ pc = "check_null" /\ ~WordMapped(address + bytes)
    \/ pc = "scan_start" /\ ~WordMapped(address - bytes)
    \/ pc = "fill" /\ env_slot < end_of_envp
         /\ (WordMapped(env_slot) => ~StringMapped(unpack(env_slot)))

\* the reader's exception leaves _parse_stack and Core.__init__: only the
\* sanity read is inside a try block
ReadFault ==
    /\ ReadFaults
    /\ pc' = "fault"
    /\ core_pc' = "raised"
    /\ UNCHANGED stackFrame /\ UNCHANGED notesVars
    /\ UNCHANGED <<mem, address, last_env_addr, end_of_envp, env_slot, env, layout>>

StackNext ==
    \/ TailNoStack \/ TailFindStack
    \/ SanityAbort \/ SanityOk
    \/ ScanByteStep \/ ScanByteFound
    \/ ScanWordStep \/ ScanWordFound
    \/ CheckNullOk \/ CheckNullFail
    \/ ScanStartStep \/ ScanStartFound
    \/ FillStep \/ FillDone
    \/ ReadFault

\* Core.__init__ is straight-line sequential code: it keeps taking steps
\* until it returns or raises.
StackSpec == StackInit /\ [][StackNext]_vars /\ WF_vars(StackNext)

(***************************************************************************)
(* Properties of the note pass and of _parse_nt_file                       *)
(***************************************************************************)

\* the mapped-file note of MapSpec has been decoded by _parse_nt_file
NtFileParsed ==
    /\ Len(notes) = 1 /\ note_idx = 1 /\ notes[1].n_type = "NT_FILE"

NoteDesc == notes[1].n_desc

DistinctStarts(desc) ==
    \A i, j \in 1..desc.count :
        desc.triples[i].start = desc.triples[j].start => i = j

NoteStarts(desc) == {desc.triples[i].start : i \in 1..desc.count}

LoadIdx == {k \in DOMAIN segments : segments[k].p_type = "PT_LOAD"}

LoadIdxAt(a) == {k \in LoadIdx : segments[k].p_vaddr = a}


C7_OnePerUnmatchedSegment ==
    (NtFileParsed /\ DistinctStarts(NoteDesc)) =>
        /\ Len(mappings) = NoteDesc.count
              + Cardinality({k \in LoadIdx : segments[k].p_vaddr \notin NoteStarts(NoteDesc)})
        /\ \A k \in LoadIdx :
              segments[k].p_vaddr \notin NoteStarts(NoteDesc) =>
                 \E i \in DOMAIN mappings :
                    mappings[i] = Mapping(None, segments[k].p_vaddr,
                                          segments[k].p_vaddr + segments[k].p_memsz,
                                          segments[k].p_flags)
        /\ \A t \in 1..NoteDesc.count :
              \E i \in DOMAIN mappings :
                 /\ mappings[i].start = NoteDesc.triples[t].start
                 /\ mappings[i].name = NoteDesc.names[t]
                 /\ mappings[i].stop = NoteDesc.triples[t].stop
                 /\ LoadIdxAt(mappings[i].start) = {} => mappings[i].flags = 0
                 /\ LoadIdxAt(mappings[i].start) # {} =>
                       mappings[i].flags = segments[LastOf(LoadIdxAt(mappings[i].start))].p_flags

\* C7 (amended): with N note entries of distinct starts, the list has one
\* mapping per note entry (its name and end, flags 0 or the p_flags of the
\* last PT_LOAD segment with that p_vaddr) and one unnamed mapping per
\* distinct PT_LOAD p_vaddr that is no note start (spanning the first such
\* segment, carrying the p_flags of the last such segment): N + (number of
\* distinct unmatched p_vaddr) entries in all.
C7_OnePerUnmatchedStart ==
    (NtFileParsed /\ DistinctStarts(NoteDesc)) =>
        LET unmatched == {segments[k].p_vaddr : k \in LoadIdx} \ NoteStarts(NoteDesc)
        IN
        /\ Len(mappings) = NoteDesc.count + Cardinality(unmatched)
        /\ \A a \in unmatched :
              \E i \in DOMAIN mappings :
                 mappings[i] = Mapping(None, a,
                                       a + segments[FirstOf(LoadIdxAt(a))].p_memsz,
                                       segments[LastOf(LoadIdxAt(a))].p_flags)
        /\ \A t \in 1..NoteDesc.count :
              \E i \in DOMAIN mappings :
                 /\ mappings[i].start = NoteDesc.triples[t].start
                 /\ mappings[i].name = NoteDesc.names[t]
                 /\ mappings[i].stop = NoteDesc.triples[t].stop
                 /\ LoadIdxAt(mappings[i].start) = {} => mappings[i].flags = 0
                 /\ LoadIdxAt(mappings[i].start) # {} =>
                       mappings[i].flags = segments[LastOf(LoadIdxAt(mappings[i].start))].p_flags

\* one note entry matched by a segment, one note entry matched by none, and
\* two segments sharing a p_vaddr that is no note start
C7_Witness ==
    /\ NtFileParsed /\ DistinctStarts(NoteDesc)
    /\ NoteDesc.count = 2
    /\ Len(segments) = 2
    /\ Len(mappings) = 3
    /\ \E i \in DOMAIN mappings : mappings[i].name # None /\ mappings[i].flags # 0
    /\ \E i \in DOMAIN mappings : mappings[i].name # None /\ mappings[i].flags = 0
    /\ \E i \in DOMAIN mappings : mappings[i].name = None

\* indices of the notes already processed that pass the test of lines 115-116
QualifyingSeen == {i \in 1..note_idx : Qualifies(notes[i])}

\* C2 (as claimed): the retained register state is the decoding of the first
\* qualifying note of the pass; later qualifying notes leave it unchanged.
C2_FirstQualifyingWins ==
    (core_pc \in {"notes", "tail", "done"} /\ QualifyingSeen # {}) =>
        prstatus = DecodePrstatus(notes[FirstOf(QualifyingSeen)].n_desc)

\* C5 (as claimed): a note whose descriptor is too short does not stop the
\* pass: the construction does not raise, and when the pass is over every
\* note has been processed.
C5_FailureIsolated ==
    /\ core_pc # "raised"
    /\ core_pc \in {"tail", "done"} => note_idx = Len(notes)

(***************************************************************************)
(* Properties of the stack reconstruction                                  *)
(***************************************************************************)

\* C3 (as claimed): when a read of the stack reconstructor asks for an
\* address the dump does not back, at the sanity check or later, the
\* construction completes without raising and the environment is empty.
C3_ReadFailureTolerated ==
    pc \in {"nostack", "fault"} => (core_pc = "done" /\ env = {})

\* C4 (as claimed): when the word after the matched envp slot is not zero,
\* the construction completes without raising and the environment is empty.
C4_MismatchNonFatal ==
    pc = "mismatch" => (core_pc = "done" /\ env = {})

\* what the sanity check does with the byte it reads, and where the byte
\* scan starts
SanityOutcome ==
    /\ (Mapped(address) /\ u8(address) # 0) =>
           (pc' = "weird" /\ core_pc' = "done" /\ env' = {})
    /\ (Mapped(address) /\ u8(address) = 0) =>
           (pc' = "scan_byte" /\ address' = address)

AnchorOf(execfn) == (execfn \div 4096) * 4096 + 4096

\* C9 (as claimed): the anchor is the file-name pointer rounded down to a
\* page boundary plus one page; the sanity read is the byte at anchor - 1; a
\* non-zero byte makes the reconstructor return with the environment empty;
\* the byte scan starts at the address of the sanity read.
C9_SanityReadAtAnchor ==
    [][pc = "sanity" =>
          /\ stack.anchor = AnchorOf(at_execfn)
          /\ address = stack.anchor - 1
          /\ SanityOutcome]_vars

\* C9 (amended): as claimed, except that the sanity read is the byte at
\* at_execfn - 1, the byte right before the executable's file name, and not
\* the byte at anchor - 1.
C9_SanityReadBeforeExecfn ==
    [][pc = "sanity" =>
          /\ stack.anchor = AnchorOf(at_execfn)
          /\ address = at_execfn - 1
          /\ SanityOutcome]_vars

\* the byte before the file name was not zero and _parse_stack returned
C9_Witness ==
    /\ pc = "weird"
    /\ layout.change[1] = "byte"
    /\ mem[at_execfn - 1] # 0
    /\ env = {}
    /\ core_pc = "done"

\* ---- the well-formed stack of C6 ----
DistinctNames(l) ==
    \A i, j \in 1..Len(l.envs) : l.envs[i].name = l.envs[j].name => i = j

\* the changed word or byte lies outside argv[], envp[] and their NULLs,
\* and outside the envp strings and the file name
ChangeKeepsLayout(l) ==
    \/ l.change[1] = "none"
    \/ /\ l.change[1] = "word"
       /\ \/ l.change[2] + bytes <= Bottom(l) + bytes
          \/ /\ l.change[2] >= EnvpHi(l) + bytes
             /\ l.change[2] + bytes <= EnvAddr(l, 1)

WellFormedStack(l) ==
    /\ Len(l.envs) >= 1
    /\ DistinctNames(l)
    /\ l.cut = Bottom(l)
    /\ ChangeKeepsLayout(l)

\* no word that starts between the NULL that ends envp[] and the first
\* string holds the address of the last envp string
NoMatchBetween(l) ==
    \A a \in Aligned(l) :
        (a >= EnvpHi(l) + bytes /\ a < StrLo(l)) => unpack(a) # LastStr(l)

\* no word the scan of lines 227-228 reads before it reaches the last envp
\* slot holds the address of the last envp string
NoMatchScanned(l) ==
    \A a \in Aligned(l) :
        (a > EnvpHi(l) - bytes /\ a <= AlignDown(LastStr(l))) => unpack(a) # LastStr(l)

ExpectedEnv(l) == {<< <<l.envs[i].name>>, EnvAddr(l, i) >> : i \in 1..Len(l.envs)}

ParseStackExact(l) ==
    /\ pc \notin {"weird", "nostack", "mismatch", "fault"}
    /\ pc = "returned" => env = ExpectedEnv(l)

\* C6 (as claimed): on a well-formed stack with e >= 1 envp entries of
\* distinct names, where no word between the envp array and the strings
\* equals the last string's address, _parse_stack does not fail and returns
\* with exactly the e entries NAME -> address of its string.
C6_ExactEnvironment ==
    (pc # "idle" /\ WellFormedStack(layout) /\ NoMatchBetween(layout))
        => ParseStackExact(layout)

\* C6 (amended): the same, where no pointer-aligned word from the one after
\* the last envp slot up to the one holding the first byte of the last
\* string -- words made of argv or envp string bytes included -- equals the
\* last string's address.
C6_ExactEnvironmentNoAlias ==
    (pc # "idle" /\ WellFormedStack(layout) /\ NoMatchScanned(layout))
        => ParseStackExact(layout)

\* two argv entries, two envp entries, both names recovered
C6_Witness ==
    /\ pc = "returned"
    /\ WellFormedStack(layout) /\ NoMatchScanned(layout)
    /\ layout.argc = 2
    /\ Len(layout.envs) = 2
    /\ Cardinality(env) = 2
    /\ env = ExpectedEnv(layout)

ScanPcs == {"scan_byte", "scan_word", "scan_start"}

\* C10: every iteration of the three backward scans of _parse_stack lowers
\* `address`, and the construction always ends, by returning or by raising.
C10_ScansTerminate ==
    /\ [][(pc \in ScanPcs /\ pc' = pc) => address' < address]_vars
    /\ <>(core_pc \in {"done", "raised"})

\* the scan for the start of envp[] ran below the lowest dumped byte after
\* the two scans before it had found what they looked for
C10_Witness ==
    /\ pc = "fault"
    /\ end_of_envp # 0
    /\ env_slot = 0
    /\ address < end_of_envp - bytes
    /\ ~WordMapped(address - bytes)

(***************************************************************************)
(* Properties of iter_notes                                                *)
(***************************************************************************)

RoundUp4(n) == ((n + 3) \div 4) * 4

\* C8 (as claimed): the yielded records tile the segment's byte range: the
\* first starts at p_offset, each next one starts where the previous one
\* ends, n_size is the header size plus the padded name and descriptor
\* sizes, and no yielded record extends past p_offset + p_filesz.
C8_RecordsTileRange ==
    /\ \A i \in DOMAIN yielded :
          /\ yielded[i].n_size = 12 + RoundUp4(yielded[i].n_namesz)
                                    + RoundUp4(yielded[i].n_descsz)
          /\ yielded[i].n_offset = IF i = 1 THEN p_offset
                                   ELSE yielded[i - 1].n_offset + yielded[i - 1].n_size
          /\ yielded[i].n_offset + yielded[i].n_size <= p_offset + p_filesz

====
